---------------------------- MODULE Spec2Model ----------------------------
(***************************************************************************)
(* Model of src/src/main.rs of grouped_bar_chart: the record loader        *)
(* (load_data), the chart model builder (main) and the grouped bar         *)
(* renderer (render_grouped_bar_chart and the functions it calls).         *)
(*                                                                         *)
(* Strings are sequences of one-character strings, ordered as Rust orders  *)
(* String (byte-wise lexicographic).  f32/f64 values are exact rationals   *)
(* [n, d] with d > 0, extended by the IEEE specials NaN = 0/0,             *)
(* +inf = 1/0 and -inf = -1/0; rounding of the binary formats is not       *)
(* modelled, except for the quotient ln(x)/LN_10 of calc_step_size, whose  *)
(* f64 value falls short of the exact logarithm at 10^3, 10^6 and 10^9.    *)
(***************************************************************************)
EXTENDS Integers, Sequences, FiniteSets, TLC

VARIABLES
    pc,               \* position of main / of the function under check
    lines_read,       \* the lines of ./data.json consumed so far by load_data
    load_groups,      \* load_data's local `groups` (BTreeMap<String, Vec<BenchData>>)
    name_to_benches,  \* main's binding of load_data's result
    colors,           \* main's palette stack
    variant_to_color, \* main's BTreeMap<String, String>
    groups,           \* the Vec<Group> handed to the renderer
    opt,              \* the GroupBarOptions of the render
    document,         \* the drawing primitives held by the SVG group
    saved,            \* whether svg::save has written image.svg
    max_value,        \* argument of bar_axis_ticks / calc_step_size
    step_size,        \* result of calc_step_size
    ticks             \* result of bar_axis_ticks

vars == <<pc, lines_read, load_groups, name_to_benches, colors, variant_to_color,
          groups, opt, document, saved, max_value, step_size, ticks>>

---------------------------------------------------------------------------
(* Bounds of the model *)

MaxLines == 3       \* lines of the input file (but see LongFiles)
MaxGroups == 2      \* groups of a render checked on its own
MaxBars == 2        \* bars of such a group
MaxBarValue == 2    \* the largest bar value of such a group
MaxMantissa == 40   \* max_value of a tick computation is m * 10^e / 100,
MaxExp == 5         \* m in 1..MaxMantissa, e in 0..MaxExp

---------------------------------------------------------------------------
(* Strings *)

S1(a) == <<a>>
S3(a, b, c) == <<a, b, c>>

DigitChars == <<"0", "1", "2", "3", "4", "5", "6", "7", "8", "9">>

IsDigit(c) == \E i \in 1..10 : DigitChars[i] = c

DigitVal(c) == (CHOOSE i \in 1..10 : DigitChars[i] = c) - 1

\* the byte of a character (UTF-8 / ASCII), for the characters the inputs use
CharCode(c) ==
    IF IsDigit(c) THEN 48 + DigitVal(c)
    ELSE CASE c = " " -> 32
           [] c = "+" -> 43
           [] c = "-" -> 45
           [] c = "/" -> 47
           [] c = "a" -> 97
           [] c = "b" -> 98
           [] c = "f" -> 102
           [] c = "g" -> 103
           [] c = "h" -> 104
           [] c = "k" -> 107
           [] c = "s" -> 115
           [] c = "x" -> 120

\* impl Ord for String: byte-wise lexicographic, a proper prefix first
StrLess(s, t) ==
    \E i \in 1..(Len(s) + 1) :
        /\ \A j \in 1..(i - 1) : j <= Len(t) /\ s[j] = t[j]
        /\ \/ i = Len(s) + 1 /\ Len(t) >= i
           \/ i <= Len(s) /\ i <= Len(t) /\ CharCode(s[i]) < CharCode(t[i])

RECURSIVE Split(_)
\* str::split("/"): the components between the separators, empty ones kept
Split(s) ==
    IF \A i \in 1..Len(s) : s[i] # "/"
    THEN <<s>>
    ELSE LET i == CHOOSE i \in 1..Len(s) :
                      s[i] = "/" /\ \A j \in 1..(i - 1) : s[j] # "/"
         IN <<SubSeq(s, 1, i - 1)>> \o Split(SubSeq(s, i + 1, Len(s)))

\* u32::MAX = 4294967295, as its decimal digits
U32MaxDigits == <<"4", "2", "9", "4", "9", "6", "7", "2", "9", "5">>

RECURSIVE StripZeros(_)
StripZeros(s) == IF Len(s) > 1 /\ s[1] = "0" THEN StripZeros(Tail(s)) ELSE s

\* whether the digit string s denotes a number above u32::MAX
ExceedsU32(s) ==
    LET t == StripZeros(s)
    IN \/ Len(t) > Len(U32MaxDigits)
       \/ Len(t) = Len(U32MaxDigits) /\ StrLess(U32MaxDigits, t)

RECURSIVE DigitsValue(_)
DigitsValue(s) ==
    IF s = <<>> THEN 0
    ELSE 10 * DigitsValue(SubSeq(s, 1, Len(s) - 1)) + DigitVal(s[Len(s)])

\* str::parse::<u32>(): an optional "+", then one or more digits, no overflow;
\* -1 stands for Err
ParseU32(s) ==
    LET body == IF s # <<>> /\ s[1] = "+" THEN Tail(s) ELSE s
    IN IF body = <<>> \/ \E i \in 1..Len(body) : ~IsDigit(body[i])
       THEN -1
       ELSE IF ExceedsU32(body) THEN -1 ELSE DigitsValue(body)

RECURSIVE U32ToString(_)
\* Display for u32: the decimal digits, no leading zeros
U32ToString(n) ==
    IF n < 10 THEN <<DigitChars[n + 1]>>
    ELSE U32ToString(n \div 10) \o <<DigitChars[(n % 10) + 1]>>

\* format!("{}/{}", bench_name, num_bytes)
GroupName(bench_name, num_bytes) == bench_name \o <<"/">> \o U32ToString(num_bytes)

---------------------------------------------------------------------------
(* Floating-point values as extended rationals *)

Abs(i) == IF i < 0 THEN -i ELSE i

Sgn(i) == IF i < 0 THEN -1 ELSE IF i > 0 THEN 1 ELSE 0

RECURSIVE Gcd(_, _)
Gcd(a, b) == IF b = 0 THEN a ELSE Gcd(b, a % b)

Rat(n, d) == LET g == Gcd(Abs(n), d) IN [n |-> n \div g, d |-> d \div g]

FromInt(i) == [n |-> i, d |-> 1]

NaN == [n |-> 0, d |-> 0]

Inf(sign) == [n |-> sign, d |-> 0]

IsNaN(x) == x.n = 0 /\ x.d = 0

IsFinite(x) == x.d > 0

FNeg(x) == [n |-> -x.n, d |-> x.d]

FAdd(a, b) ==
    IF IsNaN(a) \/ IsNaN(b) THEN NaN
    ELSE IF ~IsFinite(a) /\ ~IsFinite(b) THEN (IF a.n = b.n THEN a ELSE NaN)
    ELSE IF ~IsFinite(a) THEN a
    ELSE IF ~IsFinite(b) THEN b
    ELSE Rat(a.n * b.d + b.n * a.d, a.d * b.d)

FSub(a, b) == FAdd(a, FNeg(b))

FMul(a, b) ==
    IF IsNaN(a) \/ IsNaN(b) THEN NaN
    ELSE IF ~IsFinite(a) \/ ~IsFinite(b)
         THEN (IF Sgn(a.n) * Sgn(b.n) = 0 THEN NaN ELSE Inf(Sgn(a.n) * Sgn(b.n)))
    ELSE Rat(a.n * b.n, a.d * b.d)

\* x / 0 is an infinity of x's sign, 0 / 0 and inf / inf are NaN (zero is +0)
FDiv(a, b) ==
    IF IsNaN(a) \/ IsNaN(b) THEN NaN
    ELSE IF ~IsFinite(a) /\ ~IsFinite(b) THEN NaN
    ELSE IF ~IsFinite(a) THEN Inf(a.n * (IF b.n < 0 THEN -1 ELSE 1))
    ELSE IF ~IsFinite(b) THEN FromInt(0)
    ELSE IF b.n = 0 THEN (IF a.n = 0 THEN NaN ELSE Inf(Sgn(a.n)))
    ELSE Rat(a.n * b.d * Sgn(b.n), a.d * Abs(b.n))

\* a < b and a <= b of partial_cmp / the comparison operators: false on NaN
FLt(a, b) ==
    /\ ~IsNaN(a) /\ ~IsNaN(b)
    /\ IF ~IsFinite(a) /\ ~IsFinite(b) THEN a.n < b.n
       ELSE a.n * b.d < b.n * a.d

FLe(a, b) == ~IsNaN(a) /\ ~IsNaN(b) /\ (a = b \/ FLt(a, b))


\* f32::min(self, other): the smaller operand, the other one if one is NaN
FMinNum(a, b) ==
    IF IsNaN(a) THEN b ELSE IF IsNaN(b) THEN a ELSE IF FLt(b, a) THEN b ELSE a

\* f64::round: to the nearest integer, halves away from zero
FRound(x) ==
    IF ~IsFinite(x) THEN x
    ELSE IF x.n >= 0 THEN FromInt((2 * x.n + x.d) \div (2 * x.d))
    ELSE FromInt(-((2 * (-x.n) + x.d) \div (2 * x.d)))

\* `x as u32` of a float: truncated toward zero, negative values and NaN to 0
\* (the widths of the model stay below u32::MAX, where the cast saturates)
TruncU32(x) ==
    IF IsNaN(x) THEN 0
    ELSE IF x.n <= 0 THEN 0
    ELSE x.n \div x.d

Pow10Int(k) == 10 ^ k

\* 10^k for an integer k of either sign
Pow10(k) == IF k >= 0 THEN FromInt(Pow10Int(k)) ELSE Rat(1, Pow10Int(-k))

---------------------------------------------------------------------------
(* Record Loader: load_data *)

BenchmarkComplete == "benchmark-complete"

Id(bench_name, variant, size) == bench_name \o <<"/">> \o variant \o <<"/">> \o size

BenchLine(id, estimate) ==
    [json |-> TRUE, has_reason |-> TRUE, reason |-> BenchmarkComplete,
     has_id |-> TRUE, id |-> id, has_estimate |-> TRUE, estimate |-> FromInt(estimate)]

\* completed benchmarks of five variants, with sizes written as 725, 1000,
\* 0725 and +5; the variant f is measured at two sizes
BenchLines ==
    << BenchLine(Id(S1("a"), S1("f"), S3("7", "2", "5")), 1000),
       BenchLine(Id(S1("a"), S1("s"), S3("7", "2", "5")), 2000),
       BenchLine(Id(S1("a"), S1("g"), <<"1", "0", "0", "0">>), 1000),
       BenchLine(Id(S1("a"), S1("h"), <<"0", "7", "2", "5">>), 2000),
       BenchLine(Id(S1("b"), S1("k"), <<"+", "5">>), 1000),
       BenchLine(Id(S1("a"), S1("f"), <<"1", "0", "0", "0">>), 2000) >>

\* a line of another event kind
OtherLine ==
    [json |-> TRUE, has_reason |-> TRUE, reason |-> "compiler-artifact",
     has_id |-> FALSE, id |-> <<>>, has_estimate |-> FALSE, estimate |-> NaN]

\* lines load_data accepts
GoodLines == {BenchLines[i] : i \in 1..Len(BenchLines)} \cup {OtherLine}

\* lines load_data cannot process
BadLines ==
    { BenchLine(S3("a", "/", "f"), 1000),
      BenchLine(Id(S1("a"), S1("f"), <<"7", "x">>), 1000),
      BenchLine(Id(S1("a"), S1("f"), <<"4", "2", "9", "4", "9", "6", "7", "2", "9", "6">>), 1000),
      [BenchLine(Id(S1("a"), S1("f"), S3("7", "2", "5")), 1000)
          EXCEPT !.has_estimate = FALSE],
      [BenchLine(Id(S1("a"), S1("f"), S3("7", "2", "5")), 1000)
          EXCEPT !.has_reason = FALSE],
      [BenchLine(Id(S1("a"), S1("f"), S3("7", "2", "5")), 1000)
          EXCEPT !.json = FALSE] }

InputLines == GoodLines \cup BadLines

\* files longer than MaxLines: the five variants in both orders, three
\* variants in two groups around a line of another kind, and four variants
LongFiles ==
    { <<BenchLines[1], BenchLines[2], BenchLines[3], BenchLines[4], BenchLines[5]>>,
      <<BenchLines[5], BenchLines[4], BenchLines[3], BenchLines[2], BenchLines[1]>>,
      <<BenchLines[1], BenchLines[3], OtherLine, BenchLines[2], BenchLines[6]>>,
      <<BenchLines[2], BenchLines[3], BenchLines[4], BenchLines[6]>> }

\* the files of the model: every sequence of at most MaxLines input lines, and
\* the long files; h is the beginning of one of them
IsFilePrefix(h) ==
    \/ Len(h) <= MaxLines
    \/ \E f \in LongFiles : Len(h) <= Len(f) /\ h = SubSeq(f, 1, Len(h))

EmptyMap == [k \in {} |-> <<>>]

BucketPushFront(bucket, rec) == <<rec>> \o bucket

\* blub.push(BenchData {..})
BucketPush(bucket, rec) == Append(bucket, rec)

\* groups.entry(group_name).or_default() followed by the push
MapPush(map, key, rec) ==
    [k \in (DOMAIN map) \cup {key} |->
        IF k = key
        THEN BucketPush(IF key \in DOMAIN map THEN map[key] ELSE <<>>, rec)
        ELSE map[k]]

Panicked(map) == [panicked |-> TRUE, groups |-> map]

\* the body of load_data's loop for one line; the unwraps and the indexing of
\* components panic
LoadLineSkipBad(map, line) ==
    LET components == Split(line.id)
        num == IF Len(components) >= 3 THEN ParseU32(components[3]) ELSE -1
    IN IF line.json /\ line.has_reason /\ line.reason = BenchmarkComplete
          /\ line.has_id /\ line.has_estimate /\ num # -1
       THEN [panicked |-> FALSE,
             groups |-> MapPush(map, GroupName(components[1], num),
                         [bench_name |-> components[1],
                          group_name |-> GroupName(components[1], num),
                          variant |-> components[2],
                          num_bytes |-> num,
                          gbs |-> FDiv(FromInt(num), line.estimate)])]
       ELSE [panicked |-> FALSE, groups |-> map]

LoadLine(map, line) ==
    IF ~line.json THEN Panicked(map)
    ELSE IF ~line.has_reason THEN Panicked(map)
    ELSE IF line.reason # BenchmarkComplete THEN [panicked |-> FALSE, groups |-> map]
    ELSE IF ~line.has_id THEN Panicked(map)
    ELSE LET components == Split(line.id) IN
         IF Len(components) < 3 THEN Panicked(map)
         ELSE IF ~line.has_estimate THEN Panicked(map)
         ELSE LET bench_name == components[1]
                  variant == components[2]
                  num_bytes == ParseU32(components[3])
              IN IF num_bytes = -1 THEN Panicked(map)
                 ELSE [panicked |-> FALSE,
                       groups |-> MapPush(map, GroupName(bench_name, num_bytes),
                                   [bench_name |-> bench_name,
                                    group_name |-> GroupName(bench_name, num_bytes),
                                    variant |-> variant,
                                    num_bytes |-> num_bytes,
                                    gbs |-> FDiv(FromInt(num_bytes), line.estimate)])]

RECURSIVE BTreeOrderNumeric(_)
BTreeOrderNumeric(S) ==
    IF S = {} THEN <<>>
    ELSE LET m == CHOOSE x \in S : \A y \in S \ {x} :
                      \/ Len(x) < Len(y)
                      \/ Len(x) = Len(y) /\ StrLess(x, y)
         IN <<m>> \o BTreeOrderNumeric(S \ {m})

RECURSIVE BTreeOrder(_)
\* the iteration order of a BTreeMap<String, _> / BTreeSet<String> over keys S
BTreeOrder(S) ==
    IF S = {} THEN <<>>
    ELSE LET m == CHOOSE x \in S : \A y \in S \ {x} : StrLess(x, y)
         IN <<m>> \o BTreeOrder(S \ {m})

---------------------------------------------------------------------------
(* Chart Model Builder: main *)

Palette == <<"#37123C", "#71677C", "#A99F96", "#DDA77B">>

\* the distinct variant names of all records (a BTreeSet<String>)
Variants(map) ==
    UNION {{map[k][i].variant : i \in 1..Len(map[k])} : k \in DOMAIN map}

PopColorFirst(stack) == stack[1]

\* the color colors.pop() returns: the last of the stack
PopColor(stack) == stack[Len(stack)]

RECURSIVE PopColorsCycling(_, _)
PopColorsCycling(names, stack) ==
    IF names = <<>> THEN [panicked |-> FALSE, map |-> EmptyMap, colors |-> stack]
    ELSE LET full == IF stack = <<>> THEN Palette ELSE stack
             rest == PopColorsCycling(Tail(names), SubSeq(full, 1, Len(full) - 1))
         IN [panicked |-> FALSE,
             map |-> [v \in {Head(names)} \cup DOMAIN rest.map |->
                         IF v = Head(names) THEN PopColor(full) ELSE rest.map[v]],
             colors |-> rest.colors]

RECURSIVE PopColors(_, _)
\* variants.iter().map(|variant| (variant, colors.pop().unwrap())).collect():
\* one pop per name, in the order of names; the unwrap panics on an empty stack
PopColors(names, stack) ==
    IF names = <<>> THEN [panicked |-> FALSE, map |-> EmptyMap, colors |-> stack]
    ELSE IF stack = <<>> THEN [panicked |-> TRUE, map |-> EmptyMap, colors |-> stack]
    ELSE LET rest == PopColors(Tail(names), SubSeq(stack, 1, Len(stack) - 1))
         IN [panicked |-> rest.panicked,
             map |-> [v \in {Head(names)} \cup DOMAIN rest.map |->
                         IF v = Head(names) THEN PopColor(stack) ELSE rest.map[v]],
             colors |-> rest.colors]

num_bytes_to_name(num_bytes) ==
    CASE num_bytes = 725 -> <<"7", "2", "5", "b", " ", "T", "e", "x", "t">>
      [] num_bytes = 66675 -> <<"6", "6", "K", " ", "J", "S", "O", "N">>
      [] num_bytes = 64723 -> <<"6", "5", "K", " ", "T", "e", "x", "t">>
      [] num_bytes = 9991663 ->
            <<"1", "0", "M", "b", " ", "D", "i", "c", "k", "e", "n", "s">>
      [] num_bytes = 34308 -> <<"3", "4", "K", " ", "T", "e", "x", "t">>
      [] OTHER -> U32ToString(num_bytes)

\* the Group main builds of one bucket
BuildGroup(bucket, color_of) ==
    [label |-> num_bytes_to_name(bucket[1].num_bytes),
     values_and_color |->
        [i \in 1..Len(bucket) |->
            [value |-> bucket[i].gbs, color |-> color_of[bucket[i].variant]]]]

\* the GroupBarOptions of main
MainOptions ==
    [total_width |-> FromInt(800), total_height |-> FromInt(600),
     chart_area_to_border_padding |-> FromInt(10), group_padding |-> FromInt(20),
     bar_padding |-> FromInt(3), print_delta |-> TRUE]

---------------------------------------------------------------------------
(* Grouped Bar Renderer *)

X_AXIS_SPACE == 80

get_available_graph_width(options) ==
    FSub(FSub(options.total_width, FromInt(80)),
         FMul(options.chart_area_to_border_padding, FromInt(2)))

get_available_graph_height(options) ==
    FSub(FSub(options.total_height, FromInt(X_AXIS_SPACE)),
         FMul(options.chart_area_to_border_padding, FromInt(2)))

compute_y_mirrored(options, val, max) ==
    LET max_height == get_available_graph_height(options)
        bar_start == FAdd(max_height, options.chart_area_to_border_padding)
        height == FMul(max_height, FDiv(val, max))
    IN FAdd(bar_start, height)

compute_y_for_value(options, val, max) ==
    LET max_height == get_available_graph_height(options)
        bar_start == FAdd(max_height, options.chart_area_to_border_padding)
        height == FMul(max_height, FDiv(val, max))
    IN FSub(bar_start, height)

Line(role, x1, y1, x2, y2) ==
    [kind |-> "line", role |-> role, x1 |-> x1, y1 |-> y1, x2 |-> x2, y2 |-> y2]

Rectangle(role, x, y, width, height, fill) ==
    [kind |-> "rect", role |-> role, x |-> x, y |-> y, width |-> width,
     height |-> height, fill |-> fill]

Text(role, x, y, text) ==
    [kind |-> "text", role |-> role, x |-> x, y |-> y, text |-> text]

RECURSIVE DecString(_)
\* the decimal digits of a non-negative integer
DecString(n) ==
    IF n < 10 THEN <<DigitChars[n + 1]>>
    ELSE DecString(n \div 10) \o <<DigitChars[(n % 10) + 1]>>

\* a non-negative finite value times 100, rounded to an integer, ties to even
Hundredths(x) ==
    LET q == (x.n * 100) \div x.d
        r == (x.n * 100) % x.d
    IN IF 2 * r > x.d \/ (2 * r = x.d /\ q % 2 = 1) THEN q + 1 ELSE q

\* format!("{:.2}", x) of a float
FormatFixed2(x) ==
    IF IsNaN(x) THEN <<"N", "a", "N">>
    ELSE IF ~IsFinite(x)
         THEN (IF x.n < 0 THEN <<"-">> ELSE <<>>) \o <<"i", "n", "f">>
    ELSE LET h == Hundredths([n |-> Abs(x.n), d |-> x.d])
         IN (IF x.n < 0 THEN <<"-">> ELSE <<>>)
            \o DecString(h \div 100) \o <<".">>
            \o <<DigitChars[((h \div 10) % 10) + 1], DigitChars[(h % 10) + 1]>>

get_percent_difference(min, max) ==
    LET difference == FSub(max, min)
        percent_difference == FMul(FDiv(difference, min), FromInt(100))
    IN <<"+">> \o FormatFixed2(percent_difference) \o <<"%">>

RECURSIVE FMaxOf(_)
\* Iterator::max_by(partial_cmp) over a non-empty sequence of values
FMaxOf(vals) ==
    IF Len(vals) = 1 THEN vals[1]
    ELSE LET m == FMaxOf(Tail(vals)) IN IF FLt(m, vals[1]) THEN vals[1] ELSE m

RECURSIVE FMinOf(_)
\* Iterator::min_by(partial_cmp) over a non-empty sequence of values
FMinOf(vals) ==
    IF Len(vals) = 1 THEN vals[1]
    ELSE LET m == FMinOf(Tail(vals)) IN IF FLt(m, vals[1]) THEN m ELSE vals[1]

\* partial_cmp(..).unwrap() panics when two values are compared and one is NaN
CmpPanics(vals) == Len(vals) >= 2 /\ \E i \in 1..Len(vals) : IsNaN(vals[i])

GroupValues(g) == [i \in 1..Len(g.values_and_color) |-> g.values_and_color[i].value]

RECURSIVE AllValues(_)
\* groups.iter().flat_map(|g| &g.values_and_color).map(|el| el.0)
AllValues(gs) ==
    IF gs = <<>> THEN <<>> ELSE GroupValues(Head(gs)) \o AllValues(Tail(gs))

RECURSIVE FloorLog10(_)
\* floor(log10(x)) of a finite x > 0
FloorLog10(x) ==
    IF FLe(FromInt(10), x) THEN FloorLog10(FDiv(x, FromInt(10))) + 1
    ELSE IF FLt(x, FromInt(1)) THEN FloorLog10(FMul(x, FromInt(10))) - 1
    ELSE 0

\* the exponents j at which the f64 quotient ln(10^j) / LN_10 is below j
\* (2.9999999999999996, 5.999999999999999, 8.999999999999998)
LnQuotientShort == {3, 6, 9}

\* f64::floor(f64::ln(x) / LN_10) of a finite x > 0
LnQuotientFloor(x) ==
    IF \E j \in LnQuotientShort : x = Pow10(j) THEN FloorLog10(x) - 1
    ELSE FloorLog10(x)

NiceDigit(mag_msd) ==
    IF FLt(FromInt(5), mag_msd) THEN 10
    ELSE IF FLt(FromInt(2), mag_msd) THEN 5
    ELSE IF FLt(FromInt(1), mag_msd) THEN 2
    ELSE 1

\* the casts of non-finite values follow `as i32`: NaN to 0, saturation at the
\* ends, so that 10^mag is 0 for ln(0) = -inf and +inf for ln(+inf)
calc_step_size(max_val, target_steps) ==
    LET temp_step == FDiv(max_val, target_steps)
        mag_pow == IF IsNaN(temp_step) THEN FromInt(1)
                   ELSE IF ~IsFinite(temp_step)
                        THEN (IF temp_step.n > 0 THEN Inf(1) ELSE FromInt(1))
                   ELSE IF temp_step.n < 0 THEN FromInt(1)
                   ELSE IF temp_step.n = 0 THEN FromInt(0)
                   ELSE Pow10(LnQuotientFloor(temp_step))
        mag_msd == FRound(FAdd(FDiv(temp_step, mag_pow), Rat(1, 2)))
    IN FMul(FromInt(NiceDigit(mag_msd)), mag_pow)

bar_axis_ticks(max, num_ticks) ==
    LET step == calc_step_size(max, FromInt(num_ticks))
    IN [i \in 1..num_ticks |-> FMul(FromInt(i - 1), step)]

RECURSIVE DrawTicks(_, _, _, _)
\* the loop of draw_y_scale: a tick mark, a grid line and a label per tick
DrawTicks(options, tick_vals, axis_x_pos, max) ==
    IF tick_vals = <<>> THEN <<>>
    ELSE LET val == Head(tick_vals)
             y == compute_y_for_value(options, val, max)
         IN << Line("tick", axis_x_pos, y, FSub(axis_x_pos, FromInt(5)), y),
               Line("grid", FSub(axis_x_pos, FromInt(5)), y,
                    FAdd(options.bar_padding, get_available_graph_width(options)), y),
               Text("tick_label", FSub(axis_x_pos, FromInt(10)), FAdd(y, FromInt(4)), val) >>
            \o DrawTicks(options, Tail(tick_vals), axis_x_pos, max)

NumMarkings == 8

draw_y_scale(group, options, axis_label, group_start_x, max) ==
    LET axis_x_pos == FSub(group_start_x, FromInt(5))
        bottom == FAdd(options.chart_area_to_border_padding,
                       get_available_graph_height(options))
        mid_point == FDiv(bottom, FromInt(2))
    IN group
       \o DrawTicks(options, bar_axis_ticks(max, NumMarkings), axis_x_pos, max)
       \o << Text("axis_label", FromInt(30), mid_point, axis_label),
             Line("y_axis", axis_x_pos, options.chart_area_to_border_padding,
                  axis_x_pos, bottom) >>

draw_x_scale(group, options, axis_label, group_start_x, max) ==
    LET bottom == FAdd(options.chart_area_to_border_padding,
                       get_available_graph_height(options))
    IN Append(group,
              Line("x_axis", FSub(group_start_x, FromInt(5)), bottom,
                   FAdd(group_start_x, get_available_graph_width(options)), bottom))

RECURSIVE DrawBars(_, _, _, _, _, _)
\* the loop of draw_group: one rectangle per bar, bar_x advancing
DrawBars(options, bars, bar_x, bar_width, bar_padding, max) ==
    IF bars = <<>> THEN <<>>
    ELSE LET val == Head(bars).value
             height == FMul(get_available_graph_height(options), FDiv(val, max))
             y == compute_y_for_value(options, val, max)
         IN <<Rectangle("bar", bar_x, y, bar_width, height, Head(bars).color)>>
            \o DrawBars(options, Tail(bars), FAdd(FAdd(bar_x, bar_width), bar_padding),
                        bar_width, bar_padding, max)

\* the result is the grown document, or a panic of the unwraps of min_by / max_by
draw_group(doc, options, g, group_start_x, bar_width, group_width, bar_padding, max) ==
    LET max_height == get_available_graph_height(options)
        bar_start == FAdd(max_height, options.chart_area_to_border_padding)
        vals == GroupValues(g)
        with_bars ==
            doc \o DrawBars(options, g.values_and_color, group_start_x, bar_width,
                            bar_padding, max)
                \o <<Text("group_label", FAdd(group_start_x, bar_width),
                          FAdd(bar_start, FromInt(20)), g.label)>>
    IN IF ~options.print_delta THEN [panicked |-> FALSE, doc |-> with_bars]
       ELSE IF vals = <<>> \/ CmpPanics(vals) THEN [panicked |-> TRUE, doc |-> <<>>]
       ELSE [panicked |-> FALSE,
             doc |-> Append(with_bars,
                        Text("delta", FAdd(group_start_x, bar_width),
                             FSub(compute_y_for_value(options, FMaxOf(vals), max),
                                  FromInt(10)),
                             get_percent_difference(FMinOf(vals), FMaxOf(vals))))]

RECURSIVE DrawLegendEntries(_, _, _)
DrawLegendEntries(names, color_of, variant_y) ==
    IF names = <<>> THEN <<>>
    ELSE << Text("legend_label", FromInt(10), FromInt(variant_y + 10), Head(names)),
            Rectangle("legend_swatch", FromInt(120 - 30), FromInt(variant_y),
                      FromInt(20), FromInt(20 - 10), color_of[Head(names)]) >>
         \o DrawLegendEntries(Tail(names), color_of, variant_y + 20)

draw_legend(group, options, color_of) ==
    group
    \o <<Rectangle("legend_box", FromInt(0), FromInt(0), FromInt(120),
                   FromInt(10 * 2 + Cardinality(DOMAIN color_of) * 20), "#FFFFFF")>>
    \o DrawLegendEntries(BTreeOrder(DOMAIN color_of), color_of, 10 + 5)

RECURSIVE DrawGroups(_, _, _, _, _, _, _)
\* the loop of render_grouped_bar_chart over the groups
DrawGroups(doc, options, gs, curr_group_x, bar_width, group_width, max) ==
    IF gs = <<>> THEN [panicked |-> FALSE, doc |-> doc]
    ELSE LET r == draw_group(doc, options, Head(gs), curr_group_x, bar_width,
                             group_width, options.bar_padding, max)
         IN IF r.panicked THEN r
            ELSE DrawGroups(r.doc, options, Tail(gs), FAdd(curr_group_x, group_width),
                            bar_width, group_width, max)

RECURSIVE MaxLen(_)
MaxLen(gs) ==
    IF gs = <<>> THEN 0
    ELSE LET m == MaxLen(Tail(gs))
             l == Len(Head(gs).values_and_color)
         IN IF l > m THEN l ELSE m

\* `get_available_graph_width() as u32 - 100` leaves the range of u32
LegendOffsetOverflows(options) == TruncU32(get_available_graph_width(options)) < 100

\* overflow_checks: whether the build panics on integer overflow (debug) or
\* wraps (release); the wrapped offset 2^32 - 100 + w is kept as w - 100
render_grouped_bar_chart(title, doc, options, gs, color_of, overflow_checks) ==
    LET vals == AllValues(gs)
        max == FMaxOf(vals)
        available_graph_space == get_available_graph_width(options)
        group_width == FDiv(available_graph_space, FromInt(Len(gs)))
        bar_width == FMinNum(FDiv(group_width, FromInt(MaxLen(gs))), FromInt(30))
        curr_group_x == FAdd(FromInt(X_AXIS_SPACE), options.chart_area_to_border_padding)
        scales == draw_x_scale(draw_y_scale(doc, options, "Gb/s", curr_group_x, max),
                               options, "Gb/s", curr_group_x, max)
        drawn == DrawGroups(scales, options, gs, curr_group_x, bar_width, group_width, max)
    IN IF vals = <<>> \/ CmpPanics(vals) THEN [panicked |-> TRUE, doc |-> <<>>]
       ELSE IF drawn.panicked THEN [panicked |-> TRUE, doc |-> <<>>]
       ELSE IF LegendOffsetOverflows(options) /\ overflow_checks
            THEN [panicked |-> TRUE, doc |-> <<>>]
       ELSE [panicked |-> FALSE,
             doc |-> drawn.doc
                \o <<[kind |-> "group", role |-> "legend",
                      x |-> TruncU32(available_graph_space) - 100, y |-> 20,
                      children |-> draw_legend(<<>>, options, color_of)]>>
                \o <<Text("title",
                          FSub(FAdd(options.chart_area_to_border_padding,
                                    available_graph_space), FromInt(70)),
                          FromInt(0), title)>>]

---------------------------------------------------------------------------
(* main: load_data, the color assignment, the groups, the render, the save *)

ChartTitle == <<"t">>

Init ==
    /\ pc = "load"
    /\ lines_read = <<>>
    /\ load_groups = EmptyMap
    /\ name_to_benches = EmptyMap
    /\ colors = <<>>
    /\ variant_to_color = EmptyMap
    /\ groups = <<>>
    /\ opt = MainOptions
    /\ document = <<>>
    /\ saved = FALSE
    /\ max_value = NaN
    /\ step_size = NaN
    /\ ticks = <<>>

\* one iteration of load_data's loop over the lines of the file
ReadLine ==
    /\ pc = "load"
    /\ \E line \in InputLines :
        LET r == LoadLine(load_groups, line)
        IN /\ IsFilePrefix(Append(lines_read, line))
           /\ lines_read' = Append(lines_read, line)
           /\ IF r.panicked
              THEN pc' = "panicked" /\ UNCHANGED load_groups
              ELSE pc' = "load" /\ load_groups' = r.groups
    /\ UNCHANGED <<name_to_benches, colors, variant_to_color, groups, opt, document,
                   saved, max_value, step_size, ticks>>

\* the end of the file: load_data returns its map to main
EndOfInput ==
    /\ pc = "load"
    /\ name_to_benches' = load_groups
    /\ pc' = "colors"
    /\ UNCHANGED <<lines_read, load_groups, colors, variant_to_color, groups, opt,
                   document, saved, max_value, step_size, ticks>>

\* main, lines 71-87: the variants and their colors
AssignColors ==
    /\ pc = "colors"
    /\ LET r == PopColors(BTreeOrder(Variants(name_to_benches)), Palette)
       IN /\ colors' = r.colors
          /\ IF r.panicked
             THEN pc' = "panicked" /\ UNCHANGED variant_to_color
             ELSE pc' = "build" /\ variant_to_color' = r.map
    /\ UNCHANGED <<lines_read, load_groups, name_to_benches, groups, opt, document,
                   saved, max_value, step_size, ticks>>

\* main, lines 91-106: one iteration of the loop over name_to_benches
PushGroup ==
    /\ pc = "build"
    /\ Len(groups) < Cardinality(DOMAIN name_to_benches)
    /\ LET name == BTreeOrder(DOMAIN name_to_benches)[Len(groups) + 1]
       IN groups' = Append(groups, BuildGroup(name_to_benches[name], variant_to_color))
    /\ UNCHANGED <<pc, lines_read, load_groups, name_to_benches, colors,
                   variant_to_color, opt, document, saved, max_value, step_size, ticks>>

\* main, lines 108-120: the call of render_grouped_bar_chart
Render ==
    /\ pc = "build"
    /\ Len(groups) = Cardinality(DOMAIN name_to_benches)
    /\ \E overflow_checks \in
            (IF LegendOffsetOverflows(opt) THEN BOOLEAN ELSE {TRUE}) :
        LET r == render_grouped_bar_chart(ChartTitle, <<>>, opt, groups,
                                          variant_to_color, overflow_checks)
        IN IF r.panicked
           THEN pc' = "panicked" /\ UNCHANGED document
           ELSE pc' = "save" /\ document' = r.doc
    /\ UNCHANGED <<lines_read, load_groups, name_to_benches, colors, variant_to_color,
                   groups, opt, saved, max_value, step_size, ticks>>

\* main, line 122: svg::save
Save ==
    /\ pc = "save"
    /\ saved' = TRUE
    /\ pc' = "done"
    /\ UNCHANGED <<lines_read, load_groups, name_to_benches, colors, variant_to_color,
                   groups, opt, document, max_value, step_size, ticks>>

Next ==
    \/ ReadLine
    \/ EndOfInput
    \/ AssignColors
    \/ PushGroup
    \/ Render
    \/ Save

Spec == Init /\ [][Next]_vars

---------------------------------------------------------------------------
(* render_grouped_bar_chart on its own: any options, any groups *)

BarValues == {FromInt(v) : v \in -1..MaxBarValue}

RECURSIVE SeqsUpTo(_, _)
\* the sequences of at most n elements of S
SeqsUpTo(S, n) ==
    IF n = 0 THEN {<<>>}
    ELSE LET shorter == SeqsUpTo(S, n - 1)
         IN shorter \cup {Append(q, x) : q \in shorter, x \in S}

\* a Group of the given bar values; the colors follow the palette
GroupOfValues(vals) ==
    [label |-> <<"g">>,
     values_and_color |->
        [j \in 1..Len(vals) |->
            [value |-> vals[j], color |-> Palette[((j - 1) % Len(Palette)) + 1]]]]

RenderGroups ==
    SeqsUpTo({GroupOfValues(vals) : vals \in SeqsUpTo(BarValues, MaxBars)}, MaxGroups)

\* main's options, a canvas of no graph width (100 - 80 - 20), one of negative
\* graph height (90 - 80 - 20) and a narrow one, with and without the delta
RenderOptions ==
    {[MainOptions EXCEPT !.total_width = FromInt(size[1]),
                         !.total_height = FromInt(size[2]),
                         !.print_delta = delta] :
        size \in {<<800, 600>>, <<100, 600>>, <<800, 90>>, <<200, 600>>},
        delta \in BOOLEAN}

InitRender ==
    /\ pc = "render_call"
    /\ groups \in RenderGroups
    /\ opt \in RenderOptions
    /\ variant_to_color = PopColors(<<S1("f"), S1("s")>>, Palette).map
    /\ lines_read = <<>>
    /\ load_groups = EmptyMap
    /\ name_to_benches = EmptyMap
    /\ colors = <<>>
    /\ document = <<>>
    /\ saved = FALSE
    /\ max_value = NaN
    /\ step_size = NaN
    /\ ticks = <<>>

\* a call of render_grouped_bar_chart with an empty document
RenderCall ==
    /\ pc = "render_call"
    /\ \E overflow_checks \in
            (IF LegendOffsetOverflows(opt) THEN BOOLEAN ELSE {TRUE}) :
        LET r == render_grouped_bar_chart(ChartTitle, <<>>, opt, groups,
                                          variant_to_color, overflow_checks)
        IN IF r.panicked
           THEN pc' = "panicked" /\ UNCHANGED document
           ELSE pc' = "rendered" /\ document' = r.doc
    /\ UNCHANGED <<lines_read, load_groups, name_to_benches, colors, variant_to_color,
                   groups, opt, saved, max_value, step_size, ticks>>

NextRender == RenderCall

SpecRender == InitRender /\ [][NextRender]_vars

---------------------------------------------------------------------------
(* bar_axis_ticks and calc_step_size on their own *)

TickMaxValues ==
    {Rat(m * Pow10Int(e), 100) : m \in 1..MaxMantissa, e \in 0..MaxExp}
        \cup {FromInt(0), FromInt(-1)}

InitTicks ==
    /\ pc = "ticks_call"
    /\ max_value \in TickMaxValues
    /\ step_size = NaN
    /\ ticks = <<>>
    /\ opt \in {o \in RenderOptions : o.print_delta}
    /\ groups = <<>>
    /\ variant_to_color = EmptyMap
    /\ lines_read = <<>>
    /\ load_groups = EmptyMap
    /\ name_to_benches = EmptyMap
    /\ colors = <<>>
    /\ document = <<>>
    /\ saved = FALSE

\* bar_axis_ticks, line 424: the step size
CalcStepSize ==
    /\ pc = "ticks_call"
    /\ step_size' = calc_step_size(max_value, FromInt(NumMarkings))
    /\ pc' = "step_done"
    /\ UNCHANGED <<lines_read, load_groups, name_to_benches, colors, variant_to_color,
                   groups, opt, document, saved, max_value, ticks>>

\* bar_axis_ticks, lines 425-430: the ticks
BarAxisTicks ==
    /\ pc = "step_done"
    /\ ticks' = bar_axis_ticks(max_value, NumMarkings)
    /\ pc' = "ticks_done"
    /\ UNCHANGED <<lines_read, load_groups, name_to_benches, colors, variant_to_color,
                   groups, opt, document, saved, max_value, step_size>>

\* draw_y_scale, called as render_grouped_bar_chart calls it (line 269)
DrawYScale ==
    /\ pc = "ticks_done"
    /\ document' = draw_y_scale(<<>>, opt, "Gb/s",
                                FAdd(FromInt(X_AXIS_SPACE),
                                     opt.chart_area_to_border_padding),
                                max_value)
    /\ pc' = "scale_drawn"
    /\ UNCHANGED <<lines_read, load_groups, name_to_benches, colors, variant_to_color,
                   groups, opt, saved, max_value, step_size, ticks>>

NextTicks ==
    \/ CalcStepSize
    \/ BarAxisTicks
    \/ DrawYScale

SpecTicks == InitTicks /\ [][NextTicks]_vars

---------------------------------------------------------------------------
(* Properties of the loader and of the model builder, under Spec *)

IsComplete(line) == line.reason = BenchmarkComplete

\* the key "{bench_name}/{num_bytes}" of a well-formed completed line's id
KeyOfLine(line) ==
    GroupName(Split(line.id)[1], ParseU32(Split(line.id)[3]))

RecordOfLine(line) ==
    [bench_name |-> Split(line.id)[1],
     group_name |-> KeyOfLine(line),
     variant |-> Split(line.id)[2],
     num_bytes |-> ParseU32(Split(line.id)[3]),
     gbs |-> FDiv(FromInt(ParseU32(Split(line.id)[3])), line.estimate)]

\* the completed lines read so far whose key is k, in the order of the input
LinesOfKey(k) ==
    LET OfKey(line) == IsComplete(line) /\ KeyOfLine(line) = k
    IN SelectSeq(lines_read, OfKey)

KeysRead ==
    {KeyOfLine(lines_read[i]) : i \in {j \in 1..Len(lines_read) : IsComplete(lines_read[j])}}

\* C1: as long as every line read was well-formed, the buckets are exactly the
\* keys of the completed lines read, the bucket of a key holds one record per
\* completed line of that key and nothing else, in the order of the input;
\* lines of another reason add nothing; load_data returns this map.
C1_Grouping ==
    pc # "panicked" =>
        /\ DOMAIN load_groups = KeysRead
        /\ \A k \in KeysRead :
            /\ Len(load_groups[k]) = Len(LinesOfKey(k))
            /\ \A i \in 1..Len(LinesOfKey(k)) :
                   load_groups[k][i] = RecordOfLine(LinesOfKey(k)[i])
        /\ pc # "load" => name_to_benches = load_groups

C1_Witness ==
    /\ pc = "colors"
    /\ Cardinality(DOMAIN name_to_benches) >= 2
    /\ \E k \in DOMAIN name_to_benches : Len(name_to_benches[k]) >= 2
    /\ \E i \in 1..Len(lines_read) : ~IsComplete(lines_read[i])

\* the key of name_to_benches with exactly i - 1 keys before it in String order
KeyOfRank(i) ==
    CHOOSE k \in DOMAIN name_to_benches :
        Cardinality({j \in DOMAIN name_to_benches : StrLess(j, k)}) = i - 1

GroupsBuilt == Len(groups) = Cardinality(DOMAIN name_to_benches)

\* C2: the i-th Group handed to the renderer is the Group of the bucket whose
\* key is the i-th in ascending lexical order of the key strings, whatever the
\* order of arrival and the numeric order of the sizes.
C2_LexicalGroupOrder ==
    (pc \in {"build", "save", "done"} /\ GroupsBuilt) =>
        \A i \in 1..Len(groups) :
            groups[i] = BuildGroup(name_to_benches[KeyOfRank(i)], variant_to_color)

\* "a/725" arrived first, and the group of "a/1000" is drawn first
C2_Witness ==
    /\ pc = "done"
    /\ Len(groups) = 2
    /\ lines_read[1] = BenchLines[1]
    /\ groups[1].label = U32ToString(1000)
    /\ groups[2].label = num_bytes_to_name(725)

\* the palette entry of variant v: entry n - 1 - i (counted from 0) for the
\* i-th name in ascending order, which is entry n - i counted from 1
ColorOfVariant(v) ==
    Palette[Len(Palette)
            - Cardinality({w \in Variants(name_to_benches) : StrLess(w, v)})]

\* C3: with at most as many variants as palette entries, each variant has the
\* palette entry given by its rank among the variant names, distinct variants
\* have distinct colors, and every bar of every group has its variant's color.
C3_ColorByRank ==
    (pc \in {"build", "save", "done"}
        /\ Cardinality(Variants(name_to_benches)) <= Len(Palette)) =>
        /\ DOMAIN variant_to_color = Variants(name_to_benches)
        /\ \A v \in Variants(name_to_benches) : variant_to_color[v] = ColorOfVariant(v)
        /\ \A v, w \in Variants(name_to_benches) :
               v # w => variant_to_color[v] # variant_to_color[w]
        /\ \A g \in 1..Len(groups) :
               LET bucket == name_to_benches[KeyOfRank(g)]
               IN /\ Len(groups[g].values_and_color) = Len(bucket)
                  /\ \A j \in 1..Len(bucket) :
                         groups[g].values_and_color[j].color
                             = ColorOfVariant(bucket[j].variant)

\* three variants, one of them (f) with a bar in two groups
C3_Witness ==
    /\ pc = "done"
    /\ Cardinality(Variants(name_to_benches)) >= 3
    /\ \E g, h \in 1..Len(groups) :
           /\ g # h
           /\ name_to_benches[KeyOfRank(g)][1].variant = <<"f">>
           /\ \E j \in 1..Len(name_to_benches[KeyOfRank(h)]) :
                  name_to_benches[KeyOfRank(h)][j].variant = <<"f">>

\* a completed line with fewer than three id components, a size that is no
\* unsigned integer, or no typical.estimate
Malformed(line) ==
    /\ line.json /\ line.has_reason /\ IsComplete(line) /\ line.has_id
    /\ \/ Len(Split(line.id)) < 3
       \/ ParseU32(Split(line.id)[3]) = -1
       \/ ~line.has_estimate

\* C4: once a malformed line has been read, the run has aborted at it: no map
\* was returned, no Group built, nothing drawn, nothing saved.
C4_MalformedAborts ==
    (\E i \in 1..Len(lines_read) : Malformed(lines_read[i])) =>
        /\ pc = "panicked"
        /\ Malformed(lines_read[Len(lines_read)])
        /\ name_to_benches = EmptyMap
        /\ groups = <<>>
        /\ document = <<>>
        /\ ~saved

\* a malformed line after two valid ones
C4_Witness ==
    /\ pc = "panicked"
    /\ Len(lines_read) = 3
    /\ Malformed(lines_read[3])
    /\ Cardinality(DOMAIN load_groups) = 2

\* C5: with more variants than palette entries the run aborts before a Group
\* is built or anything is drawn; and no color is ever given to two variants.
C5_PaletteExhausted ==
    /\ (pc \notin {"load", "colors"}
           /\ Cardinality(Variants(name_to_benches)) > Len(Palette)) =>
           /\ pc = "panicked"
           /\ variant_to_color = EmptyMap
           /\ groups = <<>>
           /\ document = <<>>
           /\ ~saved
    /\ \A v, w \in DOMAIN variant_to_color :
           v # w => variant_to_color[v] # variant_to_color[w]

C5_Witness ==
    /\ pc = "panicked"
    /\ Cardinality(Variants(name_to_benches)) = Len(Palette) + 1
    /\ colors = <<>>

---------------------------------------------------------------------------
(* Properties of the renderer, under SpecRender and SpecTicks *)

HasRendered == pc \in {"rendered", "panicked"}

Degenerate(options) ==
    \/ FLe(get_available_graph_width(options), FromInt(0))
    \/ FLe(get_available_graph_height(options), FromInt(0))

\* C6: a render of no groups, of no bars, or with an available graph width or
\* height <= 0 fails and leaves nothing in the document.
C6_RenderRejects ==
    (HasRendered /\ (groups = <<>> \/ AllValues(groups) = <<>> \/ Degenerate(opt))) =>
        (pc = "panicked" /\ document = <<>>)

Bars == SelectSeq(document, LAMBDA e : e.role = "bar")

Bottom(options) ==
    FAdd(options.chart_area_to_border_padding, get_available_graph_height(options))

\* C7: every bar rectangle drawn has a height in [0, available_graph_height]
\* and a top y in [border_padding, border_padding + available_graph_height].
C7_BarsInsideGraph ==
    pc = "rendered" =>
        \A i \in 1..Len(Bars) :
            /\ FLe(FromInt(0), Bars[i].height)
            /\ FLe(Bars[i].height, get_available_graph_height(opt))
            /\ FLe(opt.chart_area_to_border_padding, Bars[i].y)
            /\ FLe(Bars[i].y, Bottom(opt))

Deltas == SelectSeq(document, LAMBDA e : e.role = "delta")

\* C8: with the delta enabled, the annotation of every group of two or more
\* bars is "+P%", P = (max - min) / min * 100 of the group's values with two
\* decimals: "+0.00%" when min = max, "+100.00%" when max is twice min.
\* (The bar values of RenderGroups are integers, so P is written with them.)
C8_DeltaText ==
    (pc = "rendered" /\ opt.print_delta) =>
        /\ Len(Deltas) = Len(groups)
        /\ \A g \in 1..Len(groups) :
            Len(groups[g].values_and_color) >= 2 =>
                LET min == FMinOf(GroupValues(groups[g]))
                    max == FMaxOf(GroupValues(groups[g]))
                IN /\ min.n # 0
                   /\ Deltas[g].text =
                        <<"+">> \o FormatFixed2(Rat((max.n - min.n) * 100 * Sgn(min.n),
                                                    Abs(min.n)))
                                \o <<"%">>
                   /\ min = max => Deltas[g].text = <<"+", "0", ".", "0", "0", "%">>
                   /\ max = FMul(FromInt(2), min) =>
                          Deltas[g].text = <<"+", "1", "0", "0", ".", "0", "0", "%">>

\* the step the claim describes: m * 10^k, k = floor(log10(raw_step))
ClaimedStep(max) ==
    LET raw_step == FDiv(max, FromInt(NumMarkings))
        k == FloorLog10(raw_step)
        msd == FRound(FAdd(FDiv(raw_step, Pow10(k)), Rat(1, 2)))
    IN FMul(FromInt(NiceDigit(msd)), Pow10(k))

\* C9: for max_value > 0 and 8 steps, calc_step_size returns m * 10^k with
\* k = floor(log10(max_value / 8)) and m in {1, 2, 5, 10} chosen from
\* round(raw_step / 10^k + 0.5); the step is never below raw_step.
C9_NiceStep ==
    (pc \in {"step_done", "ticks_done"} /\ FLt(FromInt(0), max_value)) =>
        /\ step_size = ClaimedStep(max_value)
        /\ FLe(FDiv(max_value, FromInt(NumMarkings)), step_size)

TickMarks == SelectSeq(document, LAMBDA e : e.role = "tick")

GridLines == SelectSeq(document, LAMBDA e : e.role = "grid")

TickLabels == SelectSeq(document, LAMBDA e : e.role = "tick_label")

TicksDrawn ==
    pc = "scale_drawn" /\ ~Degenerate(opt) /\ FLt(FromInt(0), max_value)

\* C10 as claimed: for a positive maximum and non-degenerate options, the 8
\* ticks are drawn at y-coordinates within the y axis line.
C10_TicksInsideAxis ==
    TicksDrawn =>
        /\ Len(TickMarks) = NumMarkings
        /\ \A i \in 1..Len(TickMarks) :
               /\ FLe(opt.chart_area_to_border_padding, TickMarks[i].y1)
               /\ FLe(TickMarks[i].y1, Bottom(opt))

\* C10 as amended: the 8 ticks step * i are drawn (mark, grid line, label) at
\* y = compute_y_for_value(tick), which is never below the bottom of the y
\* axis line, and is at or below its top exactly for the ticks <= max_value.
C10_TicksFromBaseline ==
    TicksDrawn =>
        /\ Len(TickMarks) = NumMarkings
        /\ Len(GridLines) = NumMarkings
        /\ Len(TickLabels) = NumMarkings
        /\ \A i \in 1..NumMarkings :
               /\ ticks[i] = FMul(FromInt(i - 1), step_size)
               /\ TickMarks[i].y2 = TickMarks[i].y1
               /\ GridLines[i].y1 = TickMarks[i].y1
               /\ GridLines[i].y2 = TickMarks[i].y1
               /\ TickLabels[i].y = FAdd(TickMarks[i].y1, FromInt(4))
               /\ TickLabels[i].text = ticks[i]
               /\ FLe(TickMarks[i].y1, Bottom(opt))
               /\ FLe(opt.chart_area_to_border_padding, TickMarks[i].y1)
                      <=> FLe(ticks[i], max_value)

\* a scale whose last tick is above the top of the axis line
C10_Witness ==
    /\ TicksDrawn
    /\ FLt(TickMarks[NumMarkings].y1, opt.chart_area_to_border_padding)
    /\ FLt(max_value, ticks[NumMarkings])

RECURSIVE GroupOfBar(_, _)
\* the group (from 1) that drew the i-th bar of the document: the bars are
\* added group after group, each group adding one bar per value
GroupOfBar(gs, i) ==
    IF i <= Len(Head(gs).values_and_color) THEN 1
    ELSE 1 + GroupOfBar(Tail(gs), i - Len(Head(gs).values_and_color))

SlotStart(options, gs, g) ==
    FAdd(FAdd(FromInt(80), options.chart_area_to_border_padding),
         FMul(FromInt(g - 1),
              FDiv(get_available_graph_width(options), FromInt(Len(gs)))))

\* C11: with non-degenerate options and at least one group, every bar of the
\* g-th group lies horizontally inside the group's own slot
\* [x0 + g*group_width, x0 + (g+1)*group_width] (g from 0), x0 = 80 +
\* border_padding, group_width = available_graph_width / n; so no bar reaches
\* into the next group's slot or past the right edge of the plot area.
C11_BarsInsideSlot ==
    (pc = "rendered" /\ groups # <<>> /\ ~Degenerate(opt)) =>
        \A i \in 1..Len(Bars) :
            LET g == GroupOfBar(groups, i)
            IN /\ FLe(SlotStart(opt, groups, g), Bars[i].x)
               /\ FLe(FAdd(Bars[i].x, Bars[i].width), SlotStart(opt, groups, g + 1))

===========================================================================
